---- MODULE Spec2Model ----
(***************************************************************************)
(* Model of app/exchange_rate_server.py: the in-memory rate cache, the     *)
(* ordered multi-provider fetch with the USD/CNY demo fallback, the        *)
(* historical series builder and the Flask request handlers.               *)
(*                                                                         *)
(* Units: time is in whole seconds; rates are in hundredths (6.99 is 699). *)
(* Spec and SpecHandlers handle one request at a time; the provider loop   *)
(* of get_exchange_rate_from_api is one step per provider contacted.       *)
(* SpecThreads runs requests on two threads, one step per cache access.    *)
(***************************************************************************)
EXTENDS Integers, Sequences, FiniteSets, TLC

VARIABLES
    exchange_rate_cache,  \* the module-level dict: cache_key -> entry
    now,                  \* datetime.now(), in seconds
    pc,                   \* "idle" | "fetch" | "return": position of the request in flight
    request,              \* the handler's parsed arguments
    api_index,            \* position of the for-loop over EXCHANGE_RATE_APIS
    contacted,            \* provider names requests.get was called on, in call order
    replies,              \* what each contacted provider answered (class and rate)
    errors,               \* the local diagnostics list of get_exchange_rate_from_api
    api_result,           \* the value get_exchange_rate_from_api returned
    response,             \* the last response sent
    sent,                 \* number of responses sent for the current request
    fetched,              \* history: per cache key, the last quote an /api/exchange_rate
                          \* fetch returned since the last clear, and when
    threads               \* the requests of the threaded server (app.run): per thread,
                          \* its position in the handler and its locals

vars == <<exchange_rate_cache, now, pc, request, api_index, contacted, replies,
          errors, api_result, response, sent, fetched, threads>>

----------------------------------------------------------------------------
(* Program constants *)

CACHE_DURATION == 300

\* 6.99, in hundredths
DEFAULT_RATE == 699

DEFAULT_SOURCE == "default rate (demo)"

EXCHANGE_RATE_APIS == <<"ExchangeRate-API", "Frankfurter", "OpenExchangeRates">>

ProviderNames == {EXCHANGE_RATE_APIS[i] : i \in 1..Len(EXCHANGE_RATE_APIS)}

CURRENCY_DATA ==
    {"USD", "EUR", "GBP", "JPY", "CNY", "CAD", "AUD", "CHF", "HKD", "SGD",
     "KRW", "INR", "RUB", "BRL", "MXN", "AED", "TRY", "ZAR", "SEK", "NZD"}

----------------------------------------------------------------------------
(* Bounds and input sets of the model *)

\* the clock stops advancing here
MaxTime == 600

\* amounts by which the clock advances between steps
TickSteps == {299, 300}

\* a query parameter that is not given
Absent == "<absent>"

RawBases == {"usd", "EUR", "XYZ", Absent}

RawTargets == {"CNY", "XYZ", Absent}

RawAmounts == {"abc", "0", "-5", "nan", "inf", Absent}

RawDays == {"7", "0", "-1", "800000", "abc", Absent}

\* date.toordinal() of the day the clock starts in (2024-03-03)
StartOrdinal == 738948

\* numeric rates a provider may report, in hundredths
ProviderRates == {0, 712}

----------------------------------------------------------------------------
(* JSON / Python values *)

\* Python None: a missing key, or JSON null
None == [t |-> "null", v |-> 0]

Num(x) == [t |-> "num", v |-> x]

\* a JSON string such as "7.12": present, non-null, truthy, not a number
Text == [t |-> "str", v |-> 0]

RateValues == {None, Text} \cup {Num(x) : x \in ProviderRates}

\* Python truthiness, as used by `if rate:`
Truthy(r) == \/ r.t = "str"
             \/ r.t = "num" /\ r.v # 0

IsNumber(r) == r.t = "num"

\* str.upper() on the codes the model sends
Upper(s) ==
    CASE s = "usd" -> "USD"
      [] OTHER -> s

\* request.args.get(name, default)
ArgGet(raw, default) == IF raw = Absent THEN default ELSE raw

CacheKeyBaseOnly(base_currency, target_currency) == base_currency

\* f"{base_currency}_{target_currency}"
CacheKey(base_currency, target_currency) == base_currency \o "_" \o target_currency

----------------------------------------------------------------------------
(* Provider answers: what requests.get / response.json() can do *)

ApiException(e) == [exc |-> e, status |-> 0, rate |-> None]

ApiHttp(code, r) == [exc |-> "none", status |-> code, rate |-> r]

ApiOutcomes ==
    {ApiException(e) : e \in {"Timeout", "ConnectionError", "RequestException",
                              "JSONDecodeError", "Exception"}}
    \cup {ApiHttp(500, None)}
    \cup {ApiHttp(200, r) : r \in RateValues}

\* HTTP 200 whose body holds the target rate, present and non-null
HasRate(o) == o.exc = "none" /\ o.status = 200 /\ o.rate # None

\* the class of an answer kept in `replies`
Reply(o) == [ok |-> HasRate(o), rate |-> IF HasRate(o) THEN o.rate ELSE None]

NoResult == [some |-> FALSE, rate |-> None, source |-> ""]

Quote(rate, source) == [some |-> TRUE, rate |-> rate, source |-> source]

----------------------------------------------------------------------------
(* Responses *)

\* a Python float: a finite number, nan or an infinity
Float(k, x) == [k |-> k, v |-> x]

NoFloat == Float("none", 0)

NoRequest == [route |-> "", base |-> "", target |-> "", amount |-> NoFloat, days |-> 0]

\* an exact quotient n/d; d = 0 is a division by zero (or a field not set)
Ratio(n, d) == [n |-> n, d |-> d]

NoRatio == Ratio(0, 0)

\* the rate 1, in hundredths
ONE == Num(100)

inverse_rate_unguarded(rate) == Ratio(ONE.v, rate.v)

\* lines 263 and 299: 1 / rate if rate != 0 else 0, for a numeric rate
inverse_rate(rate) == IF rate.v # 0 THEN Ratio(ONE.v, rate.v) ELSE Ratio(0, 1)

NoResponse ==
    [status |-> 0, json |-> TRUE, success |-> FALSE, exchange_rate |-> None,
     source |-> "", cached |-> "-", error |-> "", code |-> "", cache_size |-> -1,
     amount |-> NoFloat, converted_amount |-> NoFloat,
     current_rate |-> None, historical_data |-> <<>>, days |-> 0,
     currencies |-> {}, inverse_rate |-> NoRatio]

Error(status, error, code) ==
    [NoResponse EXCEPT !.status = status, !.error = error, !.code = code]

\* the dict built at lines 258-270 and 294-306
RateResponse(rate, source, cached) ==
    [NoResponse EXCEPT !.status = 200, !.success = TRUE, !.exchange_rate = rate,
                       !.inverse_rate = inverse_rate(rate),
                       !.source = source, !.cached = cached]

\* an exception no handler-level try catches: Flask answers 500, through
\* internal_error (JSON) or, under app.run(debug=True), the debugger page
Unhandled(isJson) ==
    [NoResponse EXCEPT !.status = 500, !.json = isJson, !.error = "unhandled"]

----------------------------------------------------------------------------
(* Rate cache *)

get_cached_rate_inclusive(base_currency, target_currency) ==
    LET cache_key == CacheKey(base_currency, target_currency) IN
    IF /\ cache_key \in DOMAIN exchange_rate_cache
       /\ now - exchange_rate_cache[cache_key].timestamp <= CACHE_DURATION
    THEN <<exchange_rate_cache[cache_key].rate, exchange_rate_cache[cache_key].source>>
    ELSE <<None, "">>

\* get_cached_rate: <<rate, source>>, or <<None, None>>
get_cached_rate(base_currency, target_currency) ==
    LET cache_key == CacheKey(base_currency, target_currency) IN
    IF /\ cache_key \in DOMAIN exchange_rate_cache
       /\ now - exchange_rate_cache[cache_key].timestamp < CACHE_DURATION
    THEN <<exchange_rate_cache[cache_key].rate, exchange_rate_cache[cache_key].source>>
    ELSE <<None, "">>

\* set_cached_rate: the cache after the write
set_cached_rate(base_currency, target_currency, rate, source) ==
    LET cache_key == CacheKey(base_currency, target_currency) IN
    [k \in DOMAIN exchange_rate_cache \cup {cache_key} |->
        IF k = cache_key
        THEN [rate |-> rate, source |-> source, timestamp |-> now]
        ELSE exchange_rate_cache[k]]

EmptyCache == [k \in {} |-> None]

----------------------------------------------------------------------------
(* Threads of the development server: app.run serves each request on a
   thread of its own, and the handlers share exchange_rate_cache *)

Threads == {"t1", "t2"}

\* a thread between two requests; `result` is the response of its last one
IdleThread ==
    [pc |-> "idle", route |-> "", base |-> "", target |-> "", found |-> NoResult,
     result |-> NoResponse]

----------------------------------------------------------------------------
(* Initial state *)

Init ==
    /\ exchange_rate_cache = EmptyCache
    /\ now = 0
    /\ pc = "idle"
    /\ request = NoRequest
    /\ api_index = 1
    /\ contacted = <<>>
    /\ replies = <<>>
    /\ errors = <<>>
    /\ api_result = NoResult
    /\ response = NoResponse
    /\ sent = 0
    /\ fetched = EmptyCache
    /\ threads = [t \in Threads |-> IdleThread]

fetch_vars == <<api_index, contacted, replies, errors, api_result>>

\* a handler starts: nothing fetched yet, nothing sent yet
Begin(route, base_currency, target_currency, amount, days) ==
    /\ pc = "idle"
    /\ request' = [route |-> route, base |-> base_currency, target |-> target_currency,
                   amount |-> amount, days |-> days]

\* the locals of get_exchange_rate_from_api before its loop starts, and
\* after the handler that called it has returned
FetchIdle ==
    /\ api_index' = 1
    /\ contacted' = <<>>
    /\ replies' = <<>>
    /\ errors' = <<>>
    /\ api_result' = NoResult

\* the handler returns `r`
Send(r) ==
    /\ response' = r
    /\ sent' = IF pc = "idle" THEN 1 ELSE sent + 1
    /\ pc' = "idle"
    /\ FetchIdle
    /\ UNCHANGED threads

\* the handler calls get_exchange_rate_from_api
CallFetch ==
    /\ response' = NoResponse
    /\ sent' = 0
    /\ pc' = "fetch"
    /\ FetchIdle
    /\ UNCHANGED threads

----------------------------------------------------------------------------
(* get_exchange_rate_from_api: one iteration of the loop over the providers *)

FallbackForAnyPair(base_currency, target_currency) ==
    Quote(Num(DEFAULT_RATE), DEFAULT_SOURCE)

\* the value returned once every provider has been tried (lines 133-141)
Fallback(base_currency, target_currency) ==
    IF base_currency = "USD" /\ target_currency = "CNY"
    THEN Quote(Num(DEFAULT_RATE), DEFAULT_SOURCE)
    ELSE NoResult

\* lines 100-110: status 200 and `if rate:` on the extracted rate
RateFound(o) == o.exc = "none" /\ o.status = 200 /\ Truthy(o.rate)

LoopStopsAtFirstError(i) == TRUE

\* line 89: the for-loop ends after the last entry of EXCHANGE_RATE_APIS
LoopExhausted(i) == i >= Len(EXCHANGE_RATE_APIS)

get_exchange_rate_from_api(o) ==
    /\ pc = "fetch"
    /\ contacted' = Append(contacted, EXCHANGE_RATE_APIS[api_index])
    /\ replies' = Append(replies, Reply(o))
    /\ IF RateFound(o)
       THEN /\ api_result' = Quote(o.rate, EXCHANGE_RATE_APIS[api_index])
            /\ pc' = "return"
            /\ UNCHANGED <<errors, api_index>>
       ELSE /\ errors' = Append(errors, EXCHANGE_RATE_APIS[api_index])
            /\ IF LoopExhausted(api_index)
               THEN /\ api_result' = Fallback(request.base, request.target)
                    /\ pc' = "return"
                    /\ UNCHANGED api_index
               ELSE /\ api_index' = api_index + 1
                    /\ UNCHANGED <<pc, api_result>>
    /\ UNCHANGED <<exchange_rate_cache, now, request, response, sent, fetched, threads>>

CallApi == \E o \in ApiOutcomes : get_exchange_rate_from_api(o)

----------------------------------------------------------------------------
(* /api/exchange_rate *)

get_exchange_rate_purging(rawBase, rawTarget) ==
    LET base_currency == Upper(ArgGet(rawBase, "USD"))
        target_currency == Upper(ArgGet(rawTarget, "CNY"))
        cached == get_cached_rate(base_currency, target_currency)
        cache_key == CacheKey(base_currency, target_currency)
    IN
    /\ Begin("exchange_rate", base_currency, target_currency, NoFloat, 0)
    /\ IF base_currency \notin CURRENCY_DATA
       THEN Send(Error(400, "unsupported base", base_currency)) /\ UNCHANGED exchange_rate_cache
       ELSE IF target_currency \notin CURRENCY_DATA
       THEN Send(Error(400, "unsupported target", target_currency)) /\ UNCHANGED exchange_rate_cache
       ELSE IF cached[1] # None
       THEN /\ UNCHANGED exchange_rate_cache
            /\ IF IsNumber(cached[1])
               THEN Send(RateResponse(cached[1], cached[2], "true"))
               ELSE \E isJson \in BOOLEAN : Send(Unhandled(isJson))
       ELSE /\ CallFetch
            /\ exchange_rate_cache' =
                  [k \in DOMAIN exchange_rate_cache \ {cache_key} |-> exchange_rate_cache[k]]
    /\ UNCHANGED <<now, fetched>>

\* lines 238-271: validation and the cached path
get_exchange_rate(rawBase, rawTarget) ==
    LET base_currency == Upper(ArgGet(rawBase, "USD"))
        target_currency == Upper(ArgGet(rawTarget, "CNY"))
        cached == get_cached_rate(base_currency, target_currency)
    IN
    /\ Begin("exchange_rate", base_currency, target_currency, NoFloat, 0)
    /\ IF base_currency \notin CURRENCY_DATA
       THEN Send(Error(400, "unsupported base", base_currency))
       ELSE IF target_currency \notin CURRENCY_DATA
       THEN Send(Error(400, "unsupported target", target_currency))
       ELSE IF cached[1] # None
       THEN IF IsNumber(cached[1])
            THEN Send(RateResponse(cached[1], cached[2], "true"))
            ELSE \E isJson \in BOOLEAN :  \* 1 / cached_rate raises TypeError
                    Send(Unhandled(isJson))
       ELSE CallFetch
    /\ UNCHANGED <<exchange_rate_cache, now, fetched>>

\* history: the quote just fetched for the pair, and the time of the fetch
Recorded(base_currency, target_currency) ==
    LET cache_key == CacheKey(base_currency, target_currency) IN
    [k \in DOMAIN fetched \cup {cache_key} |->
        IF k = cache_key
        THEN [rate |-> api_result.rate, source |-> api_result.source, at |-> now]
        ELSE fetched[k]]

\* lines 277-315: after get_exchange_rate_from_api returned
get_exchange_rate_return ==
    /\ pc = "return"
    /\ request.route = "exchange_rate"
    /\ IF ~api_result.some
       THEN /\ Send(Error(503, "no api data", ""))
            /\ UNCHANGED <<exchange_rate_cache, fetched>>
       ELSE /\ exchange_rate_cache' =
                 set_cached_rate(request.base, request.target,
                                 api_result.rate, api_result.source)
            /\ fetched' = Recorded(request.base, request.target)
            /\ IF IsNumber(api_result.rate)
               THEN Send(RateResponse(api_result.rate, api_result.source, "false"))
               ELSE Send(Error(500, "server error", ""))  \* 1 / rate raises TypeError
    /\ UNCHANGED <<now, request>>

GetExchangeRate ==
    \E b \in RawBases, t \in RawTargets : get_exchange_rate(b, t)

----------------------------------------------------------------------------
(* Dates: datetime arithmetic and strftime('%Y-%m-%d') *)

SECONDS_PER_DAY == 86400

\* date.max.toordinal()
MAX_ORDINAL == 3652059

\* timedelta.max.days
MAX_DELTA_DAYS == 999999999

\* datetime.now().date().toordinal()
Today == StartOrdinal + (now \div SECONDS_PER_DAY)

\* today - timedelta(days=i) raises OverflowError outside date.min..date.max
DateInRange(ordinal) == ordinal >= 1 /\ ordinal <= MAX_ORDINAL

DeltaInRange(days) == days >= -MAX_DELTA_DAYS /\ days <= MAX_DELTA_DAYS

\* date.fromordinal(n) as <<year, month, day>>, the fields of '%Y-%m-%d'
FromOrdinal(n) ==
    LET z == n + 305
        era == z \div 146097
        doe == z - era * 146097
        yoe == (doe - doe \div 1460 + doe \div 36524 - doe \div 146096) \div 365
        doy == doe - (365 * yoe + yoe \div 4 - yoe \div 100)
        mp == (5 * doy + 2) \div 153
        d == doy - (153 * mp + 2) \div 5 + 1
        m == IF mp < 10 THEN mp + 3 ELSE mp - 9
        y == yoe + era * 400 + (IF m <= 2 THEN 1 ELSE 0)
    IN <<y, m, d>>

\* string order of two '%Y-%m-%d' dates (four-digit years, zero padded)
DateLess(a, b) ==
    \/ a[1] < b[1]
    \/ a[1] = b[1] /\ a[2] < b[2]
    \/ a[1] = b[1] /\ a[2] = b[2] /\ a[3] < b[3]

\* date.weekday(): Monday is 0
Weekday(ordinal) == (ordinal + 6) % 7

\* round(x, 4) of a rate given in 1e-5 units; the result is in 1e-4 units
Round4(x) ==
    LET q == x \div 10
        r == x % 10
    IN IF r < 5 THEN q
       ELSE IF r > 5 THEN q + 1
       ELSE IF q % 2 = 0 THEN q ELSE q + 1

----------------------------------------------------------------------------
(* Historical series *)

SeqRange(a, b) == [i \in 1..(b - a + 1) |-> a + i - 1]

Reverse(s) == [i \in 1..Len(s) |-> s[Len(s) + 1 - i]]

\* the inclusive window [today - days, today] the range endpoint is asked for
Window(days) ==
    IF DeltaInRange(days) /\ DateInRange(Today - days)
    THEN SeqRange(Today - days, Today)
    ELSE <<>>

\* one item of the provider's date-keyed 'rates' object
RateItem(ordinal, has, rate) ==
    [date |-> FromOrdinal(ordinal), has |-> has, rate |-> rate]

\* a provider rate with more than four decimals, in 1e-5 units
HistRate == Num(712346)

Items(ordinals, has, rate) ==
    [i \in 1..Len(ordinals) |-> RateItem(ordinals[i], has, rate)]

IsBusinessDay(ordinal) == Weekday(ordinal) < 5

\* answers of the Frankfurter range endpoint: an exception (which includes
\* raise_for_status), a body without 'rates', or a 'rates' object of some shape
HistOutcomes ==
    {[exc |-> "RequestException", has_rates |-> FALSE, shape |-> "none"],
     [exc |-> "none", has_rates |-> FALSE, shape |-> "none"]}
    \cup {[exc |-> "none", has_rates |-> TRUE, shape |-> sh] :
             sh \in {"empty", "every day, newest first", "business days",
                     "target not quoted", "rate not a number"}}

\* the items of data['rates'], in the order the body lists them
RatesOf(h, days) ==
    CASE h.shape = "every day, newest first" ->
             Reverse(Items(Window(days), TRUE, HistRate))
      [] h.shape = "business days" ->
             Items(SelectSeq(Window(days), IsBusinessDay), TRUE, HistRate)
      [] h.shape = "target not quoted" -> Items(Window(days), FALSE, None)
      [] h.shape = "rate not a number" -> Items(Window(days), TRUE, Text)
      [] OTHER -> <<>>

\* values drawn from the unseeded random module, in 1e-5 units:
\* uniform(0.8, 1.2) and the successive (random() - 0.5) * 0.05
RandomStreams ==
    {[uniform |-> 80000, variation |-> <<-2500, 2499>>],
     [uniform |-> 120000, variation |-> <<13>>]}

Point(date, rate, time) == [date |-> date, rate |-> rate, timestamp |-> <<date, time>>]

\* "12:00:00" as seconds of the day
NOON == 43200

\* `p` put before the first item of `sorted` that is not older than it
RECURSIVE InsertByDate(_, _)
InsertByDate(sorted, p) ==
    IF sorted = <<>> THEN <<p>>
    ELSE IF DateLess(sorted[Len(sorted)].date, p.date)
    THEN Append(sorted, p)
    ELSE Append(InsertByDate(SubSeq(sorted, 1, Len(sorted) - 1), p), sorted[Len(sorted)])

\* history.sort(key=lambda x: x['date']): a stable sort
RECURSIVE SortByDate(_)
SortByDate(s) ==
    IF s = <<>> THEN <<>>
    ELSE InsertByDate(SortByDate(Tail(s)), Head(s))

HasTarget(item) == item.has

\* get_historical_data_from_api: some = FALSE is the None result
get_historical_data_from_api(base_currency, target_currency, days, h) ==
    LET quoted == SelectSeq(RatesOf(h, days), HasTarget)
        history == [i \in 1..Len(quoted) |->
                      Point(quoted[i].date, Round4(quoted[i].rate.v), NOON)]
    IN
    IF ~DeltaInRange(days) \/ ~DateInRange(Today - days)
    THEN [some |-> FALSE, history |-> <<>>]   \* OverflowError, caught
    ELSE IF h.exc # "none"
    THEN [some |-> FALSE, history |-> <<>>]
    ELSE IF ~h.has_rates
    THEN [some |-> FALSE, history |-> <<>>]
    ELSE IF \E i \in 1..Len(quoted) : ~IsNumber(quoted[i].rate)
    THEN [some |-> FALSE, history |-> <<>>]   \* TypeError in round(), caught
    ELSE [some |-> TRUE, history |-> SortByDate(history)]

\* the loop of lines 206-217, from `i` days ago down to today
RECURSIVE Synthetic(_, _, _, _)
Synthetic(i, base_rate, variation, drawn) ==
    IF i < 0 THEN <<>>
    ELSE LET rate == base_rate + variation[(drawn % Len(variation)) + 1]
         IN <<Point(FromOrdinal(Today - i), Round4(rate), now % SECONDS_PER_DAY)>>
            \o Synthetic(i - 1, rate, variation, drawn + 1)

generate_historical_data_padding(base_currency, target_currency, days, h, random) ==
    LET real_history == get_historical_data_from_api(base_currency, target_currency, days, h)
        base_rate == IF base_currency = "USD" /\ target_currency = "CNY"
                     THEN DEFAULT_RATE * 1000 ELSE random.uniform
    IN
    IF real_history.some /\ Len(real_history.history) > days
    THEN [ok |-> TRUE, history |-> real_history.history]
    ELSE IF real_history.some /\ Len(real_history.history) > 0
    THEN [ok |-> TRUE,
          history |-> real_history.history \o Synthetic(0, base_rate, random.variation, 0)]
    ELSE IF days >= 0 /\ (~DeltaInRange(days) \/ ~DateInRange(Today - days))
    THEN [ok |-> FALSE, history |-> <<>>]
    ELSE [ok |-> TRUE, history |-> Synthetic(days, base_rate, random.variation, 0)]

\* generate_historical_data: ok = FALSE is an OverflowError leaving the function
generate_historical_data(base_currency, target_currency, days, h, random) ==
    LET real_history == get_historical_data_from_api(base_currency, target_currency, days, h)
        base_rate == IF base_currency = "USD" /\ target_currency = "CNY"
                     THEN DEFAULT_RATE * 1000 ELSE random.uniform
    IN
    IF real_history.some /\ Len(real_history.history) > 0
    THEN [ok |-> TRUE, history |-> real_history.history]
    ELSE IF days >= 0 /\ (~DeltaInRange(days) \/ ~DateInRange(Today - days))
    THEN [ok |-> FALSE, history |-> <<>>]
    ELSE [ok |-> TRUE, history |-> Synthetic(days, base_rate, random.variation, 0)]

----------------------------------------------------------------------------
(* /api/historical *)

\* int(s) on the values the model sends; ok = FALSE is ValueError
ParseInt(s) ==
    CASE s = "7"      -> [ok |-> TRUE, val |-> 7]
      [] s = "0"      -> [ok |-> TRUE, val |-> 0]
      [] s = "-1"     -> [ok |-> TRUE, val |-> -1]
      [] s = "800000" -> [ok |-> TRUE, val |-> 800000]
      [] OTHER        -> [ok |-> FALSE, val |-> 0]

DEFAULT_DAYS == 30

\* lines 320-345: parsing and validation
get_historical_data(rawBase, rawTarget, rawDays) ==
    LET base_currency == Upper(ArgGet(rawBase, "USD"))
        target_currency == Upper(ArgGet(rawTarget, "CNY"))
        parsed == ParseInt(rawDays)
        days_int == IF rawDays = Absent \/ ~parsed.ok THEN DEFAULT_DAYS ELSE parsed.val
    IN
    /\ Begin("historical", base_currency, target_currency, NoFloat, days_int)
    /\ IF base_currency \notin CURRENCY_DATA
       THEN Send(Error(400, "unsupported base", base_currency))
       ELSE IF target_currency \notin CURRENCY_DATA
       THEN Send(Error(400, "unsupported target", target_currency))
       ELSE CallFetch
    /\ UNCHANGED <<exchange_rate_cache, now, fetched>>

\* lines 346-372: after get_exchange_rate_from_api returned
get_historical_data_return(h, random) ==
    LET base_rate == IF ~api_result.some
                     THEN IF request.base = "USD" /\ request.target = "CNY"
                          THEN Num(DEFAULT_RATE) ELSE Num(100)
                     ELSE api_result.rate
        generated == generate_historical_data(request.base, request.target,
                                              request.days, h, random)
    IN
    /\ pc = "return"
    /\ request.route = "historical"
    /\ IF ~generated.ok
       THEN Send(Error(500, "historical failed", ""))
       ELSE Send([NoResponse EXCEPT
                    !.status = 200, !.success = TRUE,
                    !.current_rate = base_rate,
                    !.historical_data = generated.history,
                    !.days = request.days])
    /\ UNCHANGED <<exchange_rate_cache, now, request, fetched>>

GetHistoricalData ==
    \E b \in RawBases, t \in RawTargets, d \in RawDays : get_historical_data(b, t, d)

GetHistoricalDataReturn ==
    \E h \in HistOutcomes, random \in RandomStreams :
        get_historical_data_return(h, random)

----------------------------------------------------------------------------
(* /api/convert *)

\* float(s) on the amounts the model sends; ok = FALSE is ValueError
ParseFloat(s) ==
    CASE s = "0"   -> [ok |-> TRUE, val |-> Float("num", 0)]
      [] s = "-5"  -> [ok |-> TRUE, val |-> Float("num", -5)]
      [] s = "nan" -> [ok |-> TRUE, val |-> Float("nan", 0)]
      [] s = "inf" -> [ok |-> TRUE, val |-> Float("inf", 0)]
      [] OTHER     -> [ok |-> FALSE, val |-> NoFloat]

\* amount <= 0 on floats: every comparison with nan is False
LeqZero(amount) == amount.k = "num" /\ amount.v <= 0

\* amount * rate for a numeric, non-zero rate (in hundredths)
Times(amount, rate) ==
    IF amount.k = "num" THEN Float("num", amount.v * rate.v) ELSE amount

\* lines 377-398: parsing and the amount checks
convert_amount(rawBase, rawTarget, rawAmount) ==
    LET base_currency == Upper(ArgGet(rawBase, "USD"))
        target_currency == Upper(ArgGet(rawTarget, "CNY"))
        parsed == IF rawAmount = Absent
                  THEN [ok |-> TRUE, val |-> Float("num", 1)]
                  ELSE ParseFloat(rawAmount)
    IN
    /\ Begin("convert", base_currency, target_currency, parsed.val, 0)
    /\ IF ~parsed.ok
       THEN Send(Error(400, "amount not a number", ""))
       ELSE IF LeqZero(parsed.val)
       THEN Send(Error(400, "amount not positive", ""))
       ELSE CallFetch
    /\ UNCHANGED <<exchange_rate_cache, now, fetched>>

\* lines 400-431: after get_exchange_rate_from_api returned
convert_amount_return ==
    /\ pc = "return"
    /\ request.route = "convert"
    /\ IF ~api_result.some
       THEN Send(Error(503, "no api data", ""))
       ELSE IF ~IsNumber(api_result.rate)
       THEN Send(Error(500, "convert failed", ""))  \* amount * rate raises TypeError
       ELSE IF request.base \notin CURRENCY_DATA \/ request.target \notin CURRENCY_DATA
       THEN Send(Error(500, "convert failed", ""))  \* CURRENCY_DATA[...] raises KeyError
       ELSE Send([NoResponse EXCEPT
                    !.status = 200, !.success = TRUE,
                    !.amount = request.amount,
                    !.converted_amount = Times(request.amount, api_result.rate),
                    !.exchange_rate = api_result.rate,
                    !.source = api_result.source])
    /\ UNCHANGED <<exchange_rate_cache, now, request, fetched>>

ConvertAmount ==
    \E b \in RawBases, t \in RawTargets, a \in RawAmounts : convert_amount(b, t, a)

----------------------------------------------------------------------------
(* /api/currencies, /api/clear_cache, /api/health *)

get_currencies ==
    /\ Begin("currencies", "", "", NoFloat, 0)
    /\ Send([NoResponse EXCEPT !.status = 200, !.success = TRUE,
                               !.currencies = CURRENCY_DATA])
    /\ UNCHANGED <<exchange_rate_cache, now, fetched>>

clear_cache_expired_only ==
    /\ Begin("clear_cache", "", "", NoFloat, 0)
    /\ exchange_rate_cache' =
           [k \in {c \in DOMAIN exchange_rate_cache :
                      now - exchange_rate_cache[c].timestamp < CACHE_DURATION} |->
               exchange_rate_cache[k]]
    /\ fetched' = EmptyCache
    /\ Send([NoResponse EXCEPT !.status = 200, !.success = TRUE])
    /\ UNCHANGED now

clear_cache ==
    /\ Begin("clear_cache", "", "", NoFloat, 0)
    /\ exchange_rate_cache' = EmptyCache
    /\ fetched' = EmptyCache
    /\ Send([NoResponse EXCEPT !.status = 200, !.success = TRUE])
    /\ UNCHANGED now

health_check ==
    /\ Begin("health", "", "", NoFloat, 0)
    /\ Send([NoResponse EXCEPT !.status = 200, !.success = TRUE,
                               !.cache_size = Cardinality(DOMAIN exchange_rate_cache)])
    /\ UNCHANGED <<exchange_rate_cache, now, fetched>>

----------------------------------------------------------------------------
(* Time *)

Tick ==
    \E d \in TickSteps :
        /\ now + d <= MaxTime
        /\ now' = now + d
        /\ UNCHANGED <<exchange_rate_cache, pc, request, fetch_vars, response, sent,
                       fetched, threads>>

----------------------------------------------------------------------------
(* /api/exchange_rate and /api/clear_cache on concurrent threads: one step
   per access to the shared dict, in the order the handler makes them *)

seq_vars == <<now, pc, request, api_index, contacted, replies, errors, api_result,
              response, sent, fetched>>

\* what get_exchange_rate_from_api may return for a pair: the quote of a
\* provider, or what it returns when every provider failed
FetchResults(base_currency, target_currency) ==
    {Quote(r, n) : r \in {v \in RateValues : Truthy(v) /\ IsNumber(v)},
                   n \in ProviderNames}
    \cup {Fallback(base_currency, target_currency)}

\* exchange_rate_cache[cache_key] raised KeyError: nothing catches it
KeyErrorResponse(isJson) == [Unhandled(isJson) EXCEPT !.error = "KeyError"]

\* lines 238-253: the arguments are read and validated
thread_get_exchange_rate(t, rawBase, rawTarget) ==
    LET base_currency == Upper(ArgGet(rawBase, "USD"))
        target_currency == Upper(ArgGet(rawTarget, "CNY"))
        started == [IdleThread EXCEPT !.route = "exchange_rate",
                                      !.base = base_currency,
                                      !.target = target_currency]
    IN
    /\ threads[t].pc = "idle"
    /\ threads' = [threads EXCEPT ![t] =
          IF base_currency \notin CURRENCY_DATA
          THEN [started EXCEPT !.result = Error(400, "unsupported base", base_currency)]
          ELSE IF target_currency \notin CURRENCY_DATA
          THEN [started EXCEPT !.result = Error(400, "unsupported target", target_currency)]
          ELSE [started EXCEPT !.pc = "test"]]
    /\ UNCHANGED <<exchange_rate_cache, seq_vars>>

\* line 69: if cache_key in exchange_rate_cache
thread_membership_test(t) ==
    LET cache_key == CacheKey(threads[t].base, threads[t].target) IN
    /\ threads[t].pc = "test"
    /\ threads' = [threads EXCEPT ![t].pc =
          IF cache_key \in DOMAIN exchange_rate_cache THEN "read" ELSE "fetch"]
    /\ UNCHANGED <<exchange_rate_cache, seq_vars>>

\* lines 70-74 and 257-271: cached_data = exchange_rate_cache[cache_key],
\* the age test, and the cached response
thread_entry_read(t) ==
    LET cache_key == CacheKey(threads[t].base, threads[t].target) IN
    /\ threads[t].pc = "read"
    /\ IF cache_key \notin DOMAIN exchange_rate_cache
       THEN \E isJson \in BOOLEAN :
               threads' = [threads EXCEPT ![t].pc = "idle",
                                          ![t].result = KeyErrorResponse(isJson)]
       ELSE LET cached_data == exchange_rate_cache[cache_key] IN
            IF now - cached_data.timestamp < CACHE_DURATION
            THEN IF IsNumber(cached_data.rate)
                 THEN threads' = [threads EXCEPT
                         ![t].pc = "idle",
                         ![t].result = RateResponse(cached_data.rate,
                                                    cached_data.source, "true")]
                 ELSE \E isJson \in BOOLEAN :
                         threads' = [threads EXCEPT ![t].pc = "idle",
                                                    ![t].result = Unhandled(isJson)]
            ELSE threads' = [threads EXCEPT ![t].pc = "fetch"]
    /\ UNCHANGED <<exchange_rate_cache, seq_vars>>

\* lines 275-289: the fetch, which touches no shared state
thread_fetch(t) ==
    /\ threads[t].pc = "fetch"
    /\ \E q \in FetchResults(threads[t].base, threads[t].target) :
          threads' = [threads EXCEPT ![t] =
             IF ~q.some
             THEN [@ EXCEPT !.pc = "idle", !.result = Error(503, "no api data", "")]
             ELSE [@ EXCEPT !.pc = "write", !.found = q]]
    /\ UNCHANGED <<exchange_rate_cache, seq_vars>>

\* lines 292-307: set_cached_rate and the fresh response
thread_set_cached_rate(t) ==
    LET found == threads[t].found IN
    /\ threads[t].pc = "write"
    /\ exchange_rate_cache' =
          set_cached_rate(threads[t].base, threads[t].target, found.rate, found.source)
    /\ threads' = [threads EXCEPT
          ![t].pc = "idle",
          ![t].found = NoResult,
          ![t].result = RateResponse(found.rate, found.source, "false")]
    /\ UNCHANGED seq_vars

\* lines 446-454: exchange_rate_cache.clear() and the response
thread_clear_cache(t) ==
    /\ threads[t].pc = "idle"
    /\ exchange_rate_cache' = EmptyCache
    /\ threads' = [threads EXCEPT ![t] =
          [IdleThread EXCEPT !.route = "clear_cache",
                             !.result = [NoResponse EXCEPT !.status = 200,
                                                           !.success = TRUE]]]
    /\ UNCHANGED seq_vars

----------------------------------------------------------------------------

(* Specifications *)

\* the cache over time: lookups, fetches, clears and the clock
Next ==
    \/ GetExchangeRate
    \/ CallApi
    \/ get_exchange_rate_return
    \/ clear_cache
    \/ health_check
    \/ Tick

Spec == Init /\ [][Next]_vars

\* every route of the service, within one cache lifetime
NextHandlers ==
    \/ GetExchangeRate
    \/ CallApi
    \/ get_exchange_rate_return
    \/ ConvertAmount
    \/ convert_amount_return
    \/ GetHistoricalData
    \/ GetHistoricalDataReturn
    \/ get_currencies
    \/ clear_cache
    \/ health_check

SpecHandlers == Init /\ [][NextHandlers]_vars

\* two threads serving /api/exchange_rate and /api/clear_cache requests
NextThreads ==
    \E t \in Threads :
        \/ \E b \in RawBases, tg \in RawTargets : thread_get_exchange_rate(t, b, tg)
        \/ thread_membership_test(t)
        \/ thread_entry_read(t)
        \/ thread_fetch(t)
        \/ thread_set_cached_rate(t)
        \/ thread_clear_cache(t)

SpecThreads == Init /\ [][NextThreads]_vars

----------------------------------------------------------------------------
(* Properties of the upstream fetch *)

\* every provider contacted so far ended in an error: an exception, a status
\* other than 200, or a body without a (non-null) target rate
AllFailed(rs) == \A i \in 1..Len(rs) : ~rs[i].ok

IsFallbackPair(base_currency, target_currency) ==
    base_currency = "USD" /\ target_currency = "CNY"

\* C1: first success wins, in priority order. While the loop runs, no provider
\* contacted so far has answered 200 with the target rate present and non-null;
\* once it has returned, a provider that answered so is the last one contacted
\* and the result is its rate under its name.
C1_FirstSuccessWins ==
    /\ pc = "fetch" => AllFailed(replies)
    /\ pc = "return" =>
          \A i \in 1..Len(replies) :
              replies[i].ok =>
                  /\ i = Len(replies)
                  /\ contacted = SubSeq(EXCHANGE_RATE_APIS, 1, i)
                  /\ api_result = Quote(replies[i].rate, EXCHANGE_RATE_APIS[i])

\* C2: the fetch never fails fast. The providers are contacted in list order,
\* each once; the loop goes on after every answer that yields no rate; and
\* the fetch returns the default fallback or the overall failure only after
\* all three providers have been contacted.
C2_NeverFailsFast ==
    /\ contacted = SubSeq(EXCHANGE_RATE_APIS, 1, Len(contacted))
    /\ Len(replies) = Len(contacted)
    /\ pc = "fetch" => api_index = Len(contacted) + 1 /\ ~api_result.some
    /\ pc = "return" =>
          \/ /\ contacted = EXCHANGE_RATE_APIS
             /\ errors = EXCHANGE_RATE_APIS
             /\ api_result = Fallback(request.base, request.target)
          \/ /\ api_result.some
             /\ api_result.source = EXCHANGE_RATE_APIS[Len(contacted)]
             /\ errors = SubSeq(EXCHANGE_RATE_APIS, 1, Len(contacted) - 1)

\* C2 witness: the fetch has returned the overall failure after three
\* providers that all ended in an error
C2_Witness ==
    /\ pc = "return"
    /\ api_result = NoResult
    /\ contacted = EXCHANGE_RATE_APIS
    /\ AllFailed(replies)

\* C3: when every provider failed on an /api/exchange_rate request (which
\* only fetches when no valid cache entry exists), the response for
\* (USD, CNY) is a success with rate 6.99 from the default/demo source, and
\* for any other supported pair a 503 failure without a rate.
C3_FallbackOnlyForUsdCny ==
    [][(/\ pc = "return"
        /\ pc' = "idle"
        /\ request.route = "exchange_rate"
        /\ Len(replies) = Len(EXCHANGE_RATE_APIS)
        /\ AllFailed(replies))
       => IF IsFallbackPair(request.base, request.target)
          THEN response' = RateResponse(Num(DEFAULT_RATE), DEFAULT_SOURCE, "false")
          ELSE /\ response'.status = 503
               /\ ~response'.success
               /\ response'.exchange_rate = None]_vars

\* C3 witness: a supported pair other than (USD, CNY) was answered 503
C3_Witness ==
    /\ pc = "idle"
    /\ request.route = "exchange_rate"
    /\ request.base \in CURRENCY_DATA /\ request.target \in CURRENCY_DATA
    /\ ~IsFallbackPair(request.base, request.target)
    /\ response.status = 503

----------------------------------------------------------------------------
(* Properties of the rate cache *)

\* a step in which the handler of `route` starts (the clock stands still)
Arrives(route) == pc = "idle" /\ now' = now /\ request'.route = route

Supported(r) == r.base \in CURRENCY_DATA /\ r.target \in CURRENCY_DATA

KeyOf(r) == CacheKey(r.base, r.target)

\* an /api/exchange_rate fetch for the key succeeded less than CACHE_DURATION
\* seconds ago, and the cache was not cleared since
FetchedRecently(k) == k \in DOMAIN fetched /\ now - fetched[k].at < CACHE_DURATION

\* C4: after an /api/exchange_rate request whose fetch succeeded with rate r
\* and source s, a later request for the same pair, less than 300 s later and
\* with no clear in between, answers r, s and cached=true without contacting
\* a provider.
C4_CacheHitAfterFetch ==
    [][(Arrives("exchange_rate") /\ FetchedRecently(KeyOf(request')))
       => /\ pc' = "idle"
          /\ contacted' = <<>>
          /\ response' = RateResponse(fetched[KeyOf(request')].rate,
                                      fetched[KeyOf(request')].source, "true")]_vars

\* C5: the TTL counts from insertion and reads do not extend it. A request
\* for a supported pair is served without a fetch exactly while the pair's
\* last insertion is less than 300 s old; from 300 s on (300 included) it
\* starts a fresh provider fetch; serving from the cache leaves the entry as
\* it is; and a fetch that returns a quote overwrites the entry with the
\* quote and the current time.
C5_TtlFromInsertion ==
    [][/\ (Arrives("exchange_rate") /\ Supported(request'))
          => /\ exchange_rate_cache' = exchange_rate_cache
             /\ IF FetchedRecently(KeyOf(request'))
                THEN pc' = "idle" /\ contacted' = <<>>
                ELSE pc' = "fetch" /\ sent' = 0
       /\ (pc = "return" /\ pc' = "idle" /\ request.route = "exchange_rate"
             /\ api_result.some)
          => /\ KeyOf(request) \in DOMAIN exchange_rate_cache'
             /\ exchange_rate_cache'[KeyOf(request)] =
                    [rate |-> api_result.rate, source |-> api_result.source,
                     timestamp |-> now]]_vars

\* C5 witness: a fresh fetch is under way for a pair whose entry was
\* inserted exactly 300 s ago
C5_Witness ==
    /\ pc = "fetch"
    /\ request.route = "exchange_rate"
    /\ KeyOf(request) \in DOMAIN exchange_rate_cache
    /\ KeyOf(request) \in DOMAIN fetched
    /\ now - fetched[KeyOf(request)].at = CACHE_DURATION

\* C8: once /api/clear_cache has answered, the cache holds no entry;
\* /api/health then reports cache_size 0; the next /api/exchange_rate
\* request for a supported pair starts a provider fetch; and a request that
\* fetched contacted a provider and, when it answers 200, reports
\* cached=false.
C8_ClearEmptiesCache ==
    [][/\ (pc' = "idle" /\ request'.route = "clear_cache")
          => exchange_rate_cache' = EmptyCache
       /\ (request.route = "clear_cache" /\ Arrives("health"))
          => response'.cache_size = 0
       /\ (request.route = "clear_cache" /\ Arrives("exchange_rate")
             /\ Supported(request'))
          => pc' = "fetch"
       /\ (pc = "return" /\ pc' = "idle" /\ request.route = "exchange_rate"
             /\ response'.status = 200)
          => contacted # <<>> /\ response'.cached = "false"]_vars

\* C8 witness: /api/clear_cache has answered at a time when entries written
\* at time 0 would still be valid, and the cache is empty
C8_Witness ==
    /\ pc = "idle"
    /\ request.route = "clear_cache"
    /\ response.status = 200
    /\ now > 0 /\ now < CACHE_DURATION
    /\ exchange_rate_cache = EmptyCache

----------------------------------------------------------------------------
(* Properties of the request handlers *)

RateRoutes == {"exchange_rate", "historical", "convert"}

\* a step in which a handler returns its response
Responds == pc' = "idle" /\ (pc = "return" \/ (pc = "idle" /\ now' = now))

IsPositiveNumber(amount) == amount.k = "num" /\ amount.v > 0

\* C6: each of /api/exchange_rate, /api/historical and /api/convert answers a
\* request whose base or target is not in CURRENCY_DATA (and whose other
\* parameters are valid) at once with a 400, success=false and an error
\* naming the invalid code, without contacting a provider and without
\* changing the cache.
C6_HandlersValidateCodes ==
    [][\A route \in RateRoutes :
          (/\ Arrives(route)
           /\ ~Supported(request')
           /\ route = "convert" => IsPositiveNumber(request'.amount))
          => /\ pc' = "idle"
             /\ response'.status = 400
             /\ ~response'.success
             /\ response'.code \in {request'.base, request'.target} \ CURRENCY_DATA
             /\ contacted' = <<>>
             /\ exchange_rate_cache' = exchange_rate_cache]_vars

\* C7: a series answered by /api/historical for days >= 0 has exactly days+1
\* points, one per calendar day from today-days through today, with strictly
\* ascending dates, whichever path produced it.
C7_SeriesHasEveryDay ==
    (/\ pc = "idle"
     /\ request.route = "historical"
     /\ response.status = 200
     /\ request.days >= 0)
    => LET history == response.historical_data IN
       /\ Len(history) = request.days + 1
       /\ \A i \in 1..Len(history) :
              history[i].date = FromOrdinal(Today - request.days + i - 1)
       /\ \A i \in 1..(Len(history) - 1) :
              DateLess(history[i].date, history[i + 1].date)

\* C9: a request to one of the three rate routes ends with exactly one JSON
\* response of status 200, 400, 503 or 500; a 503 is sent only when all three
\* providers ended in an error and the pair has no fallback; a 400 only for
\* invalid request parameters.
C9_OneJsonResponse ==
    [][(Responds /\ request'.route \in RateRoutes)
       => /\ sent' = 1
          /\ response'.json
          /\ response'.status \in {200, 400, 503, 500}
          /\ response'.status = 503
                => /\ pc = "return"
                   /\ Len(replies) = Len(EXCHANGE_RATE_APIS)
                   /\ AllFailed(replies)
                   /\ ~IsFallbackPair(request'.base, request'.target)
          /\ response'.status = 400
                => \/ ~Supported(request')
                   \/ /\ request'.route = "convert"
                      /\ ~IsPositiveNumber(request'.amount)]_vars

\* C10: /api/convert answers 400 at once, without contacting a provider, for
\* every amount that is not a positive finite number, and goes on to fetch a
\* rate only for a positive one.
C10_ConvertRejectsNonPositive ==
    [][(Arrives("convert") /\ ~IsPositiveNumber(request'.amount))
       => /\ pc' = "idle"
          /\ response'.status = 400
          /\ contacted' = <<>>]_vars

----------------------------------------------------------------------------
(* Properties of the success responses *)

\* C11: in every success response of /api/exchange_rate, cached or fresh,
\* inverse_rate times exchange_rate is 1 when exchange_rate is not zero and
\* inverse_rate is 0 when it is zero; and the expression that computes it
\* divides by zero for no numeric rate, 0 included, where it yields 0.
C11_InverseRate ==
    /\ (pc = "idle" /\ request.route = "exchange_rate" /\ response.success)
       => /\ IsNumber(response.exchange_rate)
          /\ response.inverse_rate.d # 0
          /\ IF response.exchange_rate.v # 0
             THEN response.inverse_rate.n * response.exchange_rate.v
                     = response.inverse_rate.d * ONE.v
             ELSE response.inverse_rate.n = 0
    /\ \A x \in ProviderRates : inverse_rate(Num(x)).d # 0
    /\ inverse_rate(Num(0)).n = 0

\* C11 witness: a success response served from the cache carries the
\* inverse of a non-zero rate
C11_Witness ==
    /\ pc = "idle"
    /\ request.route = "exchange_rate"
    /\ response.success
    /\ response.cached = "true"
    /\ response.exchange_rate = Num(712)
    /\ response.inverse_rate = Ratio(100, 712)

----------------------------------------------------------------------------
(* Properties of the cache contents *)

\* C12: every cache entry holds a provider's result: its source is one of
\* the three upstream providers, and a response with cached=true reports a
\* rate under a provider's name.
C12_CacheHoldsProviderResults ==
    /\ \A k \in DOMAIN exchange_rate_cache :
           exchange_rate_cache[k].source \in ProviderNames
    /\ (pc = "idle" /\ response.cached = "true")
       => response.source \in ProviderNames

\* C13: when all three providers ended in an error for a supported pair
\* other than (USD, CNY), the handler of no rate route answers with a success
\* that carries a current rate for the pair.
C13_NoFabricatedRate ==
    [][(/\ pc = "return"
        /\ pc' = "idle"
        /\ request.route \in RateRoutes
        /\ Supported(request)
        /\ ~IsFallbackPair(request.base, request.target)
        /\ Len(replies) = Len(EXCHANGE_RATE_APIS)
        /\ AllFailed(replies))
       => ~(/\ response'.success
            /\ \/ response'.exchange_rate # None
               \/ response'.current_rate # None)]_vars

\* an entry of the cache that get_cached_rate no longer returns
Expired(k) ==
    /\ k \in DOMAIN exchange_rate_cache
    /\ now - exchange_rate_cache[k].timestamp >= CACHE_DURATION

\* C14: reads never evict. The lookup of an /api/exchange_rate request
\* (served from the cache or not), every provider step and a fetch that
\* ends in the overall failure leave the cache as it is; an entry, expired
\* or not, stays as it is in every step other than a fetch of its own pair
\* that returned a quote and /api/clear_cache; and /api/health counts every
\* entry, the expired ones included.
C14_ReadsNeverEvict ==
    [][/\ Arrives("exchange_rate") => exchange_rate_cache' = exchange_rate_cache
       /\ pc = "fetch" => exchange_rate_cache' = exchange_rate_cache
       /\ (pc = "return" /\ request.route = "exchange_rate" /\ ~api_result.some)
          => exchange_rate_cache' = exchange_rate_cache
       /\ \A k \in DOMAIN exchange_rate_cache :
             \/ Arrives("clear_cache")
             \/ /\ pc = "return" /\ request.route = "exchange_rate"
                /\ api_result.some /\ KeyOf(request) = k
             \/ /\ k \in DOMAIN exchange_rate_cache'
                /\ exchange_rate_cache'[k] = exchange_rate_cache[k]
       /\ Arrives("health")
          => response'.cache_size = Cardinality(DOMAIN exchange_rate_cache)]_vars

\* C14 witness: a request that found its pair's entry expired was answered
\* 503 after a failed fetch, and the expired entry is still in the cache
C14_Witness ==
    /\ pc = "idle"
    /\ request.route = "exchange_rate"
    /\ response.status = 503
    /\ Expired(KeyOf(request))

\* the keys of all pairs of supported codes
RegistryKeys == {CacheKey(b, t) : b \in CURRENCY_DATA, t \in CURRENCY_DATA}

\* C15: the cache is bounded by the registry. Every cache key is the key of
\* a pair of codes that are both in CURRENCY_DATA; distinct pairs have
\* distinct keys (the N*N pairs have N*N keys); and the cache holds at most
\* N*N entries, 400 for the 20 codes of the registry.
C15_CacheBoundedByRegistry ==
    LET N == Cardinality(CURRENCY_DATA) IN
    /\ DOMAIN exchange_rate_cache \subseteq RegistryKeys
    /\ Cardinality(RegistryKeys) = N * N
    /\ Cardinality(DOMAIN exchange_rate_cache) <= N * N
    /\ N = 20 /\ N * N = 400

\* C15 witness: a request naming an unsupported code has been refused while
\* the cache holds the entries of two distinct pairs
C15_Witness ==
    /\ pc = "idle"
    /\ response.status = 400
    /\ ~Supported(request)
    /\ Cardinality(DOMAIN exchange_rate_cache) = 2

----------------------------------------------------------------------------
(* Properties of concurrent requests *)

\* the responses /api/exchange_rate can give a request for the pair when the
\* requests run one after the other, whatever the providers answer
SequentialResults(base_currency, target_currency) ==
    IF base_currency \notin CURRENCY_DATA
    THEN {Error(400, "unsupported base", base_currency)}
    ELSE IF target_currency \notin CURRENCY_DATA
    THEN {Error(400, "unsupported target", target_currency)}
    ELSE LET results == FetchResults(base_currency, target_currency) IN
         {RateResponse(q.rate, q.source, c) :
             q \in {x \in results : x.some}, c \in {"true", "false"}}
         \cup {Error(503, "no api data", "") : q \in {x \in results : ~x.some}}

\* C16: with /api/exchange_rate and /api/clear_cache requests running on
\* concurrent threads, every /api/exchange_rate request that has finished
\* has a result the requests could give in a sequential order; in
\* particular none ended in the KeyError of an entry that disappeared
\* between the membership test and the read.
C16_NoLockingNeeded ==
    \A t \in Threads :
        (threads[t].pc = "idle" /\ threads[t].route = "exchange_rate")
        => /\ threads[t].result \in
                 SequentialResults(threads[t].base, threads[t].target)
           /\ threads[t].result.error # "KeyError"

----------------------------------------------------------------------------
(* Properties of the historical series *)

\* the primary path yields no result: the request cannot be made or fails,
\* the body has no 'rates' or not the expected structure, or no date quotes
\* the target
PrimaryYieldsNothing(h, days) ==
    LET items == RatesOf(h, days) IN
    \/ ~DeltaInRange(days) \/ ~DateInRange(Today - days)
    \/ h.exc # "none"
    \/ ~h.has_rates
    \/ \A i \in 1..Len(items) : ~items[i].has
    \/ \E i \in 1..Len(items) : items[i].has /\ ~IsNumber(items[i].rate)

\* the provider's points for the target currency, in the order of the body
ProviderPoints(h, days) ==
    LET quoted == SelectSeq(RatesOf(h, days), HasTarget) IN
    [i \in 1..Len(quoted) |-> Point(quoted[i].date, Round4(quoted[i].rate.v), NOON)]

SamePoints(a, b) ==
    /\ Len(a) = Len(b)
    /\ {a[i] : i \in 1..Len(a)} = {b[i] : i \in 1..Len(b)}

IsSortedByDate(s) == \A i \in 1..(Len(s) - 1) : ~DateLess(s[i + 1].date, s[i].date)

\* the random walk of the fallback path, for the stream `random`
SyntheticSeries(base_currency, target_currency, days, random) ==
    Synthetic(days,
              IF IsFallbackPair(base_currency, target_currency)
              THEN DEFAULT_RATE * 1000 ELSE random.uniform,
              random.variation, 0)

\* C17: the series is never a mix of real and synthetic points. Whatever
\* the range endpoint answers, generate_historical_data returns the whole
\* synthetic series when the primary path yields no result, and otherwise
\* exactly the provider's points for the target, sorted ascending by date;
\* and /api/historical answers with the series so generated.
C17_NoMixedSeries ==
    /\ (pc = "return" /\ request.route = "historical")
       => \A h \in HistOutcomes, random \in RandomStreams :
             LET g == generate_historical_data(request.base, request.target,
                                               request.days, h, random)
             IN g.ok =>
                  IF PrimaryYieldsNothing(h, request.days)
                  THEN g.history = SyntheticSeries(request.base, request.target,
                                                   request.days, random)
                  ELSE /\ SamePoints(g.history, ProviderPoints(h, request.days))
                       /\ IsSortedByDate(g.history)
    /\ (pc = "idle" /\ request.route = "historical" /\ response.status = 200)
       => \E h \in HistOutcomes, random \in RandomStreams :
             response.historical_data =
                IF PrimaryYieldsNothing(h, request.days)
                THEN SyntheticSeries(request.base, request.target,
                                     request.days, random)
                ELSE SortByDate(ProviderPoints(h, request.days))

\* C17 witness: /api/historical answered days=7 with a real series that has
\* fewer than 8 points, every one of them the provider's
C17_Witness ==
    /\ pc = "idle"
    /\ request.route = "historical"
    /\ request.days = 7
    /\ response.status = 200
    /\ Len(response.historical_data) \in 1..7
    /\ \A i \in 1..Len(response.historical_data) :
          response.historical_data[i].timestamp[2] = NOON

----------------------------------------------------------------------------
(* Frame of the cache *)

\* the cache differs from the cache after the step in the entry of `k` only
OnlyKeyWritten(k) ==
    /\ DOMAIN exchange_rate_cache' = DOMAIN exchange_rate_cache \cup {k}
    /\ \A j \in DOMAIN exchange_rate_cache \ {k} :
          exchange_rate_cache'[j] = exchange_rate_cache[j]

\* C18: the cache changes only in a step of /api/exchange_rate whose fetch
\* returned a quote, which writes the key of the requested pair only, and in
\* /api/clear_cache. /api/convert, /api/historical, /api/currencies and
\* /api/health, and an /api/exchange_rate request that ends in 400, 503 or
\* 500, leave the cache as it is; /api/convert and /api/historical, given
\* valid parameters, go to the providers whatever the cache holds.
C18_CacheFrame ==
    [][/\ exchange_rate_cache' # exchange_rate_cache
          => \/ Arrives("clear_cache")
             \/ /\ pc = "return" /\ request.route = "exchange_rate"
                /\ api_result.some
                /\ OnlyKeyWritten(KeyOf(request))
       /\ (Responds /\ request'.route \in {"convert", "historical", "currencies", "health"})
          => exchange_rate_cache' = exchange_rate_cache
       /\ (Responds /\ request'.route = "exchange_rate"
             /\ response'.status \in {400, 503, 500})
          => exchange_rate_cache' = exchange_rate_cache
       /\ (Arrives("historical") /\ Supported(request')) => pc' = "fetch"
       /\ (Arrives("convert") /\ IsPositiveNumber(request'.amount)) => pc' = "fetch"]_vars

====
